---- MODULE Spec2Model ----
(***************************************************************************)
(* Model of scripts/secrets_handler.py: the mask / unmask runs over the    *)
(* two configured files and the .secrets.json store.                       *)
(*                                                                         *)
(* Text is a sequence of characters.  A one-character string is that      *)
(* character; the key literals of FILES_CONFIG ("DATABASE_PASSWORD=", ...) *)
(* are kept as single elements, so a key can only occur whole.  A file on  *)
(* disk is such a sequence too (it may hold "\r"); what the program sees   *)
(* is the text after Python's text-mode newline translation.               *)
(***************************************************************************)
EXTENDS Integers, Sequences, FiniteSets, TLC

(***************************************************************************)
(* Bounds of the model.                                                    *)
(***************************************************************************)
\* lines generated over the two files of an initial state (scenario files aside)
MaxLines == 2
\* runs (mask or unmask) of one behaviour
MaxRuns == 2
\* values of one entry of the initial store
MaxStored == 1
\* runs of one behaviour that starts with no store file
MaxFreshRuns == 4

(***************************************************************************)
(* Constants of the program.                                               *)
(***************************************************************************)
QUOTE == "\""

MASK == <<"*", "*", "*", "*", "*", "*">>

COMPOSE == "docker-compose.yml"

CONFIG == "configs/config.yaml"

\* the keys of FILES_CONFIG in dictionary order
FILES == <<COMPOSE, CONFIG>>

FileSet == {COMPOSE, CONFIG}

\* r"(KEY)([^\s-]+)()"
EnvPattern(key) ==
    [key |-> key, ws |-> FALSE, open |-> <<>>, zone |-> "nonspace_nondash_plus", close |-> <<>>]

\* r'(KEY\s*")([^"]*)(")'
QuotedPattern(key) ==
    [key |-> key, ws |-> TRUE, open |-> <<QUOTE>>, zone |-> "nonquote_star", close |-> <<QUOTE>>]

FILES_CONFIG ==
    [f \in FileSet |->
        IF f = COMPOSE
        THEN << EnvPattern("DATABASE_PASSWORD="), EnvPattern("MYSQL_ROOT_PASSWORD=") >>
        ELSE << QuotedPattern("password:"), QuotedPattern("oss_access_key:"),
                QuotedPattern("oss_secret_key:"), QuotedPattern("api_key:") >>]

\* os.linesep of the platform the script runs on (POSIX)
linesep == <<"\n">>

(***************************************************************************)
(* Text-mode file reading and writing.                                     *)
(***************************************************************************)
RECURSIVE ReadText(_)
\* open(filepath, 'r').read(): universal newlines, "\r\n" and "\r" become "\n"
ReadText(bytes) ==
    IF bytes = <<>> THEN <<>>
    ELSE IF Head(bytes) = "\r"
         THEN IF Len(bytes) >= 2 /\ bytes[2] = "\n"
              THEN <<"\n">> \o ReadText(SubSeq(bytes, 3, Len(bytes)))
              ELSE <<"\n">> \o ReadText(Tail(bytes))
         ELSE <<Head(bytes)>> \o ReadText(Tail(bytes))

RECURSIVE WriteText(_)
\* open(filepath, 'w').write(text): "\n" is written as os.linesep
WriteText(text) ==
    IF text = <<>> THEN <<>>
    ELSE (IF Head(text) = "\n" THEN linesep ELSE <<Head(text)>>) \o WriteText(Tail(text))

(***************************************************************************)
(* Regular-expression matching of the configured patterns.                 *)
(***************************************************************************)
\* \s
IsSpace(c) == c \in {" ", "\n", "\r", "\t"}

\* the character class of a pattern's value zone
InZone(zone, c) ==
    IF zone = "nonspace_nondash_plus" THEN ~IsSpace(c) /\ c # "-" ELSE c # QUOTE

RECURSIVE SkipSpace(_, _)
\* \s* from position i: the first position that holds no whitespace
SkipSpace(s, i) ==
    IF i <= Len(s) /\ IsSpace(s[i]) THEN SkipSpace(s, i + 1) ELSE i

RECURSIVE ZoneEnd(_, _, _)
\* greedy [class]* from position i: the first position outside the class
ZoneEnd(zone, s, i) ==
    IF i <= Len(s) /\ InZone(zone, s[i]) THEN ZoneEnd(zone, s, i + 1) ELSE i

NoMatch == [found |-> FALSE, vs |-> 0, ve |-> 0, end |-> 0]

\* pattern.match at position i of s: the value zone is s[vs..ve-1], the match s[i..end-1]
Match(pattern, s, i) ==
    IF s[i] # pattern.key THEN NoMatch
    ELSE LET j  == IF pattern.ws THEN SkipSpace(s, i + 1) ELSE i + 1
             vs == j + Len(pattern.open)
         IN  IF vs - 1 > Len(s) \/ SubSeq(s, j, vs - 1) # pattern.open THEN NoMatch
             ELSE LET ve == IF pattern.zone = "mask"
                            THEN IF vs + Len(MASK) - 1 <= Len(s)
                                    /\ SubSeq(s, vs, vs + Len(MASK) - 1) = MASK
                                 THEN vs + Len(MASK) ELSE 0
                            ELSE ZoneEnd(pattern.zone, s, vs)
                      end == ve + Len(pattern.close)
                  IN  IF ve = 0 \/ (pattern.zone = "nonspace_nondash_plus" /\ ve = vs)
                         \/ end - 1 > Len(s) \/ SubSeq(s, ve, end - 1) # pattern.close
                      THEN NoMatch
                      ELSE [found |-> TRUE, vs |-> vs, ve |-> ve, end |-> end]

(***************************************************************************)
(* mask                                                                    *)
(***************************************************************************)
\* a slip: the value is not compared with MASK, a masked value is captured again
mask_replacer_unchecked(prefix, value, suffix, file_secrets) ==
    [text |-> prefix \o MASK \o suffix, file_secrets |-> Append(file_secrets, value)]

\* a slip: a value the file's list already holds is not recorded again
mask_replacer_dedup(prefix, value, suffix, file_secrets) ==
    IF value = MASK
    THEN [text |-> prefix \o value \o suffix, file_secrets |-> file_secrets]
    ELSE [text |-> prefix \o MASK \o suffix,
          file_secrets |-> IF \E i \in 1..Len(file_secrets) : file_secrets[i] = value
                           THEN file_secrets ELSE Append(file_secrets, value)]

\* mask_replacer(match), with the list it appends to threaded through
mask_replacer(prefix, value, suffix, file_secrets) ==
    IF value = MASK
    THEN [text |-> prefix \o value \o suffix, file_secrets |-> file_secrets]
    ELSE [text |-> prefix \o MASK \o suffix, file_secrets |-> Append(file_secrets, value)]

RECURSIVE MaskSub(_, _, _, _, _)
\* re.sub(pattern, mask_replacer, s): leftmost non-overlapping matches from position i,
\* out is the text produced so far
MaskSub(pattern, s, i, out, file_secrets) ==
    IF i > Len(s) THEN [content |-> out, file_secrets |-> file_secrets]
    ELSE LET m == Match(pattern, s, i) IN
         IF ~m.found THEN MaskSub(pattern, s, i + 1, Append(out, s[i]), file_secrets)
         ELSE LET r == mask_replacer(SubSeq(s, i, m.vs - 1), SubSeq(s, m.vs, m.ve - 1),
                                     SubSeq(s, m.ve, m.end - 1), file_secrets)
              IN  MaskSub(pattern, s, m.end, out \o r.text, r.file_secrets)

RECURSIVE MaskPatterns(_, _, _, _)
\* for pattern in patterns: new_content = re.sub(pattern, mask_replacer, new_content)
MaskPatterns(patterns, k, new_content, file_secrets) ==
    IF k > Len(patterns) THEN [content |-> new_content, file_secrets |-> file_secrets]
    ELSE LET r == MaskSub(patterns[k], new_content, 1, <<>>, file_secrets)
         IN  MaskPatterns(patterns, k + 1, r.content, r.file_secrets)

RECURSIVE CapturedOnContent(_, _, _)
CapturedOnContent(patterns, k, content) ==
    IF k > Len(patterns) THEN <<>>
    ELSE MaskSub(patterns[k], content, 1, <<>>, <<>>).file_secrets
         \o CapturedOnContent(patterns, k + 1, content)

\* a slip: every pattern is applied to content, not to new_content
MaskFileFromContent(filepath, content) ==
    [content |-> MaskSub(FILES_CONFIG[filepath][Len(FILES_CONFIG[filepath])],
                         content, 1, <<>>, <<>>).content,
     file_secrets |-> CapturedOnContent(FILES_CONFIG[filepath], 1, content)]

\* the body of mask's loop for one file whose text is content
MaskFile(filepath, content) == MaskPatterns(FILES_CONFIG[filepath], 1, content, <<>>)

(***************************************************************************)
(* unmask                                                                  *)
(***************************************************************************)
\* unmask_replacer(match), with the list it pops from threaded through
unmask_replacer(prefix, value, suffix, current_file_secrets) ==
    IF current_file_secrets = <<>>
    THEN [text |-> prefix \o value \o suffix, current_file_secrets |-> current_file_secrets]
    ELSE IF value = MASK
         THEN [text |-> prefix \o Head(current_file_secrets) \o suffix,
               current_file_secrets |-> Tail(current_file_secrets)]
         ELSE [text |-> prefix \o value \o suffix, current_file_secrets |-> current_file_secrets]

\* pattern.replace(<the value zone's sub-pattern>, "(" + re.escape(MASK) + ")")
mask_search_pattern(filepath, pattern) ==
    IF filepath = COMPOSE
    THEN IF pattern.zone = "nonspace_nondash_plus" THEN [pattern EXCEPT !.zone = "mask"] ELSE pattern
    ELSE IF pattern.zone = "nonquote_star" THEN [pattern EXCEPT !.zone = "mask"] ELSE pattern

RECURSIVE UnmaskSub(_, _, _, _, _)
\* re.sub(mask_search_pattern, unmask_replacer, s)
UnmaskSub(pattern, s, i, out, current_file_secrets) ==
    IF i > Len(s) THEN [content |-> out, current_file_secrets |-> current_file_secrets]
    ELSE LET m == Match(pattern, s, i) IN
         IF ~m.found THEN UnmaskSub(pattern, s, i + 1, Append(out, s[i]), current_file_secrets)
         ELSE LET r == unmask_replacer(SubSeq(s, i, m.vs - 1), SubSeq(s, m.vs, m.ve - 1),
                                       SubSeq(s, m.ve, m.end - 1), current_file_secrets)
              IN  UnmaskSub(pattern, s, m.end, out \o r.text, r.current_file_secrets)

RECURSIVE UnmaskPatterns(_, _, _, _, _)
\* for pattern in patterns: new_content = re.sub(mask_search_pattern, unmask_replacer, new_content)
UnmaskPatterns(filepath, patterns, k, new_content, current_file_secrets) ==
    IF k > Len(patterns)
    THEN [content |-> new_content, current_file_secrets |-> current_file_secrets]
    ELSE LET r == UnmaskSub(mask_search_pattern(filepath, patterns[k]), new_content, 1, <<>>,
                            current_file_secrets)
         IN  UnmaskPatterns(filepath, patterns, k + 1, r.content, r.current_file_secrets)

\* the body of unmask's loop for one file whose text is content
UnmaskFile(filepath, content, file_secrets) ==
    UnmaskPatterns(filepath, FILES_CONFIG[filepath], 1, content, file_secrets)

(***************************************************************************)
(* State.                                                                  *)
(***************************************************************************)
VARIABLES
    files,      \* per configured path: whether the file exists and its content on disk
    store,      \* .secrets.json: absent, unparsable ("corrupt") or a mapping path -> values
    output,     \* what the last run printed
    hist        \* per run so far: the command and the files and store it started from

vars == <<files, store, output, hist>>

Missing == [exists |-> FALSE, content |-> <<>>]

OnDisk(bytes) == [exists |-> TRUE, content |-> bytes]

EmptyMap == [f \in {} |-> <<>>]

AbsentStore == [state |-> "absent", map |-> EmptyMap]

CorruptStore == [state |-> "corrupt", map |-> EmptyMap]

Saved(secrets) == [state |-> "ok", map |-> secrets]

Msg(kind, n, filepath) == [kind |-> kind, n |-> n, file |-> filepath]

ErrorLoading == Msg("Error loading secrets", 0, "")

NoSecretsFound == Msg("No secrets found to restore", 0, "")

\* load_secrets(): the mapping read, {} when the store is absent or does not parse
load_secrets == IF store.state = "ok" THEN store.map ELSE EmptyMap

\* what load_secrets() prints
load_log == IF store.state = "corrupt" THEN <<ErrorLoading>> ELSE <<>>

RECURSIVE Report(_, _)
\* the lines printed by a loop over FILES from index k on, line(f) being <<>> or one message
Report(k, line) ==
    IF k > Len(FILES) THEN <<>> ELSE line[FILES[k]] \o Report(k + 1, line)

\* the store the first run started from
FirstStore == IF hist = <<>> THEN store ELSE hist[1].store

\* how many runs the behaviour goes on for
RunBound == IF FirstStore.state = "absent" THEN MaxFreshRuns ELSE MaxRuns

(***************************************************************************)
(* The two commands.                                                       *)
(***************************************************************************)
\* a slip: the entry and the file are written whether or not a value was captured
HasSecretsAlways(file_secrets) == TRUE

\* if file_secrets:
HasSecrets(file_secrets) == file_secrets # <<>>

\* a slip: the captured values are added to the entry the file had
SetItemExtend(secrets, filepath, file_secrets) ==
    [f \in (DOMAIN secrets) \cup {filepath} |->
        IF f = filepath
        THEN (IF filepath \in DOMAIN secrets THEN secrets[filepath] ELSE <<>>) \o file_secrets
        ELSE secrets[f]]

\* a slip: the mapping is built anew from the file's captures, the loaded entries dropped
SetItemFresh(secrets, filepath, file_secrets) == [f \in {filepath} |-> file_secrets]

\* secrets[filepath] = file_secrets
SetItem(secrets, filepath, file_secrets) ==
    [f \in (DOMAIN secrets) \cup {filepath} |->
        IF f = filepath THEN file_secrets ELSE secrets[f]]

\* mask's loop reaches file f and captures values in it
Captures(f) == files[f].exists /\ HasSecrets(MaskFile(f, ReadText(files[f].content)).file_secrets)

RECURSIVE MaskLoop(_, _)
\* the mapping held in secrets once mask's loop has gone through FILES from index k on
MaskLoop(k, secrets) ==
    IF k > Len(FILES) THEN secrets
    ELSE IF Captures(FILES[k])
         THEN MaskLoop(k + 1, SetItem(secrets, FILES[k],
                                      MaskFile(FILES[k], ReadText(files[FILES[k]].content)).file_secrets))
         ELSE MaskLoop(k + 1, secrets)

mask ==
    /\ Len(hist) < RunBound
    /\ files' = [f \in FileSet |->
                    IF Captures(f)
                    THEN OnDisk(WriteText(MaskFile(f, ReadText(files[f].content)).content))
                    ELSE files[f]]
    /\ store' = Saved(MaskLoop(1, load_secrets))
    /\ output' = load_log \o
                 Report(1, [f \in FileSet |->
                     IF Captures(f)
                     THEN <<Msg("Masked",
                                Len(MaskFile(f, ReadText(files[f].content)).file_secrets), f)>>
                     ELSE <<>>])
    /\ hist' = Append(hist, [op |-> "mask", files |-> files, store |-> store])

\* a slip: the empty mapping is not told apart, the loop runs on it
NothingToRestoreNever(secrets) == FALSE

\* if not secrets:
NothingToRestore(secrets) == DOMAIN secrets = {}

\* a slip: the loop stops at the first file it skips (break for continue)
RestoresUntilSkip(f, secrets) ==
    LET pos == CHOOSE k \in 1..Len(FILES) : FILES[k] = f
    IN  \A j \in 1..pos : files[FILES[j]].exists /\ FILES[j] \in DOMAIN secrets

\* unmask's loop does not skip file f:
\* not (not os.path.exists(filepath) or filepath not in secrets)
Restores(f, secrets) == files[f].exists /\ f \in DOMAIN secrets

\* what unmask's loop computes for a file it does not skip
Restored(f, secrets) == UnmaskFile(f, ReadText(files[f].content), secrets[f])

\* unmask, from the files it rewrote on: the files and output (the store is never saved)
UnmaskFilesAndOutput(secrets) ==
    IF NothingToRestore(secrets)
    THEN /\ output' = load_log \o <<NoSecretsFound>>
         /\ UNCHANGED files
    ELSE /\ files' = [f \in FileSet |->
                         IF Restores(f, secrets)
                         THEN OnDisk(WriteText(Restored(f, secrets).content))
                         ELSE files[f]]
         /\ output' = load_log \o
                      Report(1, [f \in FileSet |->
                          IF Restores(f, secrets)
                          THEN <<Msg("Unmasked",
                                     Len(secrets[f])
                                       - Len(Restored(f, secrets).current_file_secrets), f)>>
                          ELSE <<>>])

\* a slip: the values left over are saved, the consumed ones are lost from the store
unmask_saving ==
    /\ Len(hist) < RunBound
    /\ UnmaskFilesAndOutput(load_secrets)
    /\ store' = IF NothingToRestore(load_secrets) THEN store
                ELSE Saved([f \in DOMAIN load_secrets |->
                               IF Restores(f, load_secrets)
                               THEN Restored(f, load_secrets).current_file_secrets
                               ELSE load_secrets[f]])
    /\ hist' = Append(hist, [op |-> "unmask", files |-> files, store |-> store])

unmask ==
    /\ Len(hist) < RunBound
    /\ UnmaskFilesAndOutput(load_secrets)
    /\ UNCHANGED store
    /\ hist' = Append(hist, [op |-> "unmask", files |-> files, store |-> store])

(***************************************************************************)
(* Initial states: the files and the store the script may be started on.  *)
(***************************************************************************)
Line(key, value) == <<key>> \o value \o <<"\n">>

QuotedLine(key, value) == <<key, " ", QUOTE>> \o value \o <<QUOTE, "\n">>

\* the lines that the generated files are made of
ComposeLines ==
    { Line("DATABASE_PASSWORD=", <<"a">>),
      Line("MYSQL_ROOT_PASSWORD=", <<"a">>),
      Line("MYSQL_ROOT_PASSWORD=", <<"b">>),
      Line("DATABASE_PASSWORD=", MASK) }

ConfigLines ==
    { QuotedLine("password:", <<"a">>),
      QuotedLine("api_key:", <<"b">>),
      QuotedLine("password:", MASK) }

RECURSIVE Concat(_)
Concat(seqs) == IF seqs = <<>> THEN <<>> ELSE Head(seqs) \o Concat(Tail(seqs))

\* the texts of n lines drawn from lines
Texts(lines, n) == {Concat(ls) : ls \in [1..n -> lines]}

\* further files, kept as regression inputs
ComposeScenarios ==
    { \* a value that holds the other key
      Line("MYSQL_ROOT_PASSWORD=", <<"DATABASE_PASSWORD=", "a">>),
      \* a value that starts with the mask token
      Line("DATABASE_PASSWORD=", MASK \o <<"a">>),
      \* a value with a dash, after a masked line
      Line("MYSQL_ROOT_PASSWORD=", MASK) \o Line("MYSQL_ROOT_PASSWORD=", <<"a", "-", "b">>),
      \* lines that end in CR LF
      <<"DATABASE_PASSWORD=", "a", "\r", "\n", "MYSQL_ROOT_PASSWORD=", "b", "\r", "\n">>,
      \* a value that holds the other key and the mask token, then two more lines
      Line("DATABASE_PASSWORD=", <<"MYSQL_ROOT_PASSWORD=">> \o MASK)
        \o Line("MYSQL_ROOT_PASSWORD=", MASK) \o Line("MYSQL_ROOT_PASSWORD=", <<"b">>) }

ConfigScenarios ==
    { \* all four keys, the first with no blank after the key, the third with an empty value
      <<"password:", QUOTE, "b", QUOTE, "\n">> \o QuotedLine("oss_access_key:", <<"a">>)
        \o QuotedLine("oss_secret_key:", <<>>) \o QuotedLine("api_key:", MASK),
      \* a value that holds another key and an unbalanced quote
      <<"api_key:", " ", QUOTE, "password:", " ", QUOTE, "a", QUOTE, "\n">>,
      \* a key with no quoted value
      <<"password:", " ", "a", "\n">> }

StoreValues == {<<"c">>}

StoredSeqs == UNION {[1..n -> StoreValues] : n \in 0..MaxStored}

InitStores ==
    {AbsentStore, CorruptStore}
    \cup {Saved(m) : m \in UNION {[D -> StoredSeqs] : D \in SUBSET FileSet}}

InitFiles ==
    { [f \in FileSet |-> IF f = COMPOSE THEN c ELSE y] :
        c \in {Missing, OnDisk(<<>>)} \cup {OnDisk(t) : t \in ComposeScenarios},
        y \in {Missing, OnDisk(<<>>)} \cup {OnDisk(t) : t \in ConfigScenarios} }
    \cup UNION { { [f \in FileSet |-> IF f = COMPOSE THEN OnDisk(c) ELSE OnDisk(y)] :
                     c \in Texts(ComposeLines, nk[1]), y \in Texts(ConfigLines, nk[2]) } :
                 nk \in {p \in (0..MaxLines) \X (0..MaxLines) : p[1] + p[2] <= MaxLines} }

Init ==
    /\ files \in InitFiles
    /\ store \in InitStores
    /\ output = <<>>
    /\ hist = <<>>

Next == mask \/ unmask

Spec == Init /\ [][Next]_vars

(***************************************************************************)
(* Vocabulary of the properties.                                           *)
(***************************************************************************)
Runs == Len(hist)

\* the last run was op
LastWas(op) == Runs >= 1 /\ hist[Runs].op = op

\* the last two runs were op1 then op2
LastTwoWere(op1, op2) == Runs >= 2 /\ hist[Runs - 1].op = op1 /\ hist[Runs].op = op2

\* the text of file f as run i read it
TextBefore(i, f) == ReadText(hist[i].files[f].content)

\* the mapping run i loaded
MapBefore(i) == IF hist[i].store.state = "ok" THEN hist[i].store.map ELSE EmptyMap

RECURSIVE ZoneValuesFrom(_, _, _)
ZoneValuesFrom(pattern, s, i) ==
    IF i > Len(s) THEN <<>>
    ELSE LET m == Match(pattern, s, i) IN
         IF m.found THEN <<SubSeq(s, m.vs, m.ve - 1)>> \o ZoneValuesFrom(pattern, s, m.end)
         ELSE ZoneValuesFrom(pattern, s, i + 1)

\* the value zones of the occurrences of pattern in s, left to right
ZoneValues(pattern, s) == ZoneValuesFrom(pattern, s, 1)

NotMask(v) == v # MASK

\* the value zones that the patterns of file f match in s
Zones(f, s) ==
    UNION {{ZoneValues(FILES_CONFIG[f][k], s)[j] :
               j \in 1..Len(ZoneValues(FILES_CONFIG[f][k], s))} :
           k \in 1..Len(FILES_CONFIG[f])}

\* no value zone of s equals the mask token
NoMaskedZone(f, s) == \A v \in Zones(f, s) : v # MASK

\* every value zone of s equals the mask token (mask has nothing to capture)
NothingToCapture(f, s) == \A v \in Zones(f, s) : v = MASK

RECURSIVE ExpectedFrom(_, _, _)
\* the values mask is to record for text s: pattern list order first, and per pattern
\* the zones of the text as the earlier patterns left it, left to right, the mask
\* tokens among them left out
ExpectedFrom(patterns, k, s) ==
    IF k > Len(patterns) THEN <<>>
    ELSE SelectSeq(ZoneValues(patterns[k], s), NotMask)
         \o ExpectedFrom(patterns, k + 1, MaskSub(patterns[k], s, 1, <<>>, <<>>).content)

ExpectedSecrets(f, s) == ExpectedFrom(FILES_CONFIG[f], 1, s)

(***************************************************************************)
(* C1 -- round trip: for a target file in which no matched value zone      *)
(* equals the mask token, mask followed at once by unmask leaves the       *)
(* file's content identical to its content before mask.                    *)
(***************************************************************************)
C1_RoundTrip ==
    LastTwoWere("mask", "unmask") =>
        \A f \in FileSet :
            hist[Runs - 1].files[f].exists /\ NoMaskedZone(f, TextBefore(Runs - 1, f))
                => files[f] = hist[Runs - 1].files[f]

(***************************************************************************)
(* C2 -- idempotent masking: a second mask right after a mask captures no  *)
(* value in any file and leaves every file and the store as the first run  *)
(* left them.                                                              *)
(***************************************************************************)
C2_MaskTwice ==
    LastTwoWere("mask", "mask") =>
        /\ \A i \in 1..Len(output) : output[i].kind # "Masked"
        /\ files = hist[Runs].files
        /\ store = hist[Runs].store

\* two mask runs of which the first captured values
C2_Witness ==
    /\ LastTwoWere("mask", "mask")
    /\ \E f \in FileSet : hist[Runs].files[f] # hist[Runs - 1].files[f]

(***************************************************************************)
(* C3 -- when a mask run replaces at least one value of a file, the store  *)
(* entry of the file is exactly the replaced values, in pattern list order *)
(* and left to right per pattern, equal values kept apart; the file with   *)
(* DATABASE_PASSWORD=a and MYSQL_ROOT_PASSWORD=a yields [a, a] and a       *)
(* following unmask restores both.                                         *)
(***************************************************************************)
SameValueTwice == Line("DATABASE_PASSWORD=", <<"a">>) \o Line("MYSQL_ROOT_PASSWORD=", <<"a">>)

C3_StoreEntry ==
    /\ LastWas("mask") =>
          \A f \in FileSet :
              hist[Runs].files[f].exists /\ ExpectedSecrets(f, TextBefore(Runs, f)) # <<>>
                  => /\ f \in DOMAIN store.map
                     /\ store.map[f] = ExpectedSecrets(f, TextBefore(Runs, f))
    /\ LastWas("mask") /\ hist[Runs].files[COMPOSE] = OnDisk(SameValueTwice)
          => store.map[COMPOSE] = << <<"a">>, <<"a">> >>
    /\ LastTwoWere("mask", "unmask") /\ hist[Runs - 1].files[COMPOSE] = OnDisk(SameValueTwice)
          => files[COMPOSE] = OnDisk(SameValueTwice)

\* the file with the same value under both keys was masked and then unmasked
C3_Witness ==
    /\ LastTwoWere("mask", "unmask")
    /\ hist[Runs - 1].files[COMPOSE] = OnDisk(SameValueTwice)
    /\ store.map[COMPOSE] = << <<"a">>, <<"a">> >>

(***************************************************************************)
(* Mask-token occurrences of a text, found without the program's search:   *)
(* the key, then for a quoted pattern blanks and a quote, then the mask    *)
(* token, then the closing text of the pattern.                            *)
(***************************************************************************)
\* the position after the occurrence of pattern that starts at i, 0 when none starts there
OccurrenceEnd(pattern, s, i) ==
    LET j    == IF pattern.ws THEN SkipSpace(s, i + 1) ELSE i + 1
        body == pattern.open \o MASK \o pattern.close
    IN  IF s[i] = pattern.key /\ j + Len(body) - 1 <= Len(s)
           /\ SubSeq(s, j, j + Len(body) - 1) = body
        THEN j + Len(body) ELSE 0

OccurrenceStarts(pattern, s) == {i \in 1..Len(s) : OccurrenceEnd(pattern, s, i) # 0}

RECURSIVE OccurrencesUpTo(_, _, _)
\* the number of occurrences of the first k patterns of file f in s
OccurrencesUpTo(f, k, s) ==
    IF k = 0 THEN 0
    ELSE Cardinality(OccurrenceStarts(FILES_CONFIG[f][k], s)) + OccurrencesUpTo(f, k - 1, s)

Occurrences(f, s) == OccurrencesUpTo(f, Len(FILES_CONFIG[f]), s)

\* the place in scan order (pattern order outer, left to right inner) of the
\* occurrence of the k-th pattern that starts at i
ScanRank(f, k, s, i) ==
    OccurrencesUpTo(f, k - 1, s)
    + Cardinality({j \in OccurrenceStarts(FILES_CONFIG[f][k], s) : j <= i})

RECURSIVE RestoreFirstFrom(_, _, _, _)
RestoreFirstFrom(f, s, i, values) ==
    IF i > Len(s) THEN <<>>
    ELSE LET ks == {k \in 1..Len(FILES_CONFIG[f]) :
                       /\ OccurrenceEnd(FILES_CONFIG[f][k], s, i) # 0
                       /\ ScanRank(f, k, s, i) <= Len(values)}
         IN  IF ks = {} THEN <<s[i]>> \o RestoreFirstFrom(f, s, i + 1, values)
             ELSE LET k   == CHOOSE k \in ks : TRUE
                      pat == FILES_CONFIG[f][k]
                      e   == OccurrenceEnd(pat, s, i)
                  IN  SubSeq(s, i, e - Len(MASK) - Len(pat.close) - 1)
                      \o values[ScanRank(f, k, s, i)] \o pat.close
                      \o RestoreFirstFrom(f, s, e, values)

\* s with its first Len(values) occurrences in scan order holding the values in order
\* and every other occurrence left as it is
RestoreFirst(f, s, values) == RestoreFirstFrom(f, s, 1, values)

(***************************************************************************)
(* C4 -- partial restoration: when the store holds N values for a file     *)
(* that has more than N mask-token occurrences, unmask restores exactly    *)
(* the first N occurrences in scan order, the k-th with the k-th value,    *)
(* leaves the others equal to the mask token and reports N.                *)
(***************************************************************************)
C4_PartialRestore ==
    LastWas("unmask") =>
        \A f \in FileSet :
            /\ hist[Runs].files[f].exists
            /\ f \in DOMAIN MapBefore(Runs)
            /\ Len(MapBefore(Runs)[f]) < Occurrences(f, TextBefore(Runs, f))
            => /\ files[f] = OnDisk(WriteText(RestoreFirst(f, TextBefore(Runs, f),
                                                           MapBefore(Runs)[f])))
               /\ \E i \in 1..Len(output) :
                     output[i] = Msg("Unmasked", Len(MapBefore(Runs)[f]), f)

(***************************************************************************)
(* C5 -- in any state of the files and the store, a second unmask right    *)
(* after an unmask (no mask in between) is a no-op: it leaves every file   *)
(* as the first unmask left it.                                            *)
(***************************************************************************)
C5_UnmaskTwice ==
    LastTwoWere("unmask", "unmask") => files = hist[Runs].files

(***************************************************************************)
(* C6 -- as claimed: with the store absent, unparsable or an empty         *)
(* mapping, unmask changes no file, leaves the store file as it is and     *)
(* prints the "no secrets found" notice and nothing else.                  *)
(***************************************************************************)
EmptyStoreBefore(i) == hist[i].store.state # "ok" \/ DOMAIN hist[i].store.map = {}

C6_EmptyStoreOnlyNotice ==
    LastWas("unmask") /\ EmptyStoreBefore(Runs) =>
        /\ files = hist[Runs].files
        /\ store = hist[Runs].store
        /\ output = <<NoSecretsFound>>

(***************************************************************************)
(* C6 -- as amended: with the store absent, unparsable or an empty         *)
(* mapping, unmask changes no file, leaves the store file as it is and     *)
(* prints the "no secrets found" notice, after the load error when the     *)
(* store does not parse, and nothing else.                                 *)
(***************************************************************************)
C6_EmptyStore ==
    LastWas("unmask") /\ EmptyStoreBefore(Runs) =>
        /\ files = hist[Runs].files
        /\ store = hist[Runs].store
        /\ output = (IF hist[Runs].store.state = "corrupt" THEN <<ErrorLoading>> ELSE <<>>)
                    \o <<NoSecretsFound>>

\* unmask ran on an unparsable store and on files that hold mask-token occurrences
C6_Witness ==
    /\ LastWas("unmask")
    /\ hist[Runs].store = CorruptStore
    /\ \E f \in FileSet : Occurrences(f, TextBefore(Runs, f)) > 0
    /\ store = CorruptStore

(***************************************************************************)
(* C7 -- unmask never changes the store on disk: after an unmask run the   *)
(* persisted mapping, the values consumed by the run included, is the one  *)
(* the run started from.                                                   *)
(***************************************************************************)
C7_UnmaskKeepsStore ==
    LastWas("unmask") => store = hist[Runs].store

\* unmask restored a value and the store still holds it
C7_Witness ==
    /\ LastWas("unmask")
    /\ \E i \in 1..Len(output) : output[i].kind = "Unmasked" /\ output[i].n > 0
    /\ store = hist[Runs].store

(***************************************************************************)
(* C8 -- when a mask run captures no value in a file (no pattern matches   *)
(* or every matched zone already equals the mask token), the file is left  *)
(* unchanged, no store entry is created for it and an entry it had is kept *)
(* unchanged in the saved store.                                           *)
(***************************************************************************)
C8_NothingCaptured ==
    LastWas("mask") =>
        \A f \in FileSet :
            hist[Runs].files[f].exists /\ NothingToCapture(f, TextBefore(Runs, f))
            => /\ files[f] = hist[Runs].files[f]
               /\ store.state = "ok"
               /\ (f \in DOMAIN store.map) = (f \in DOMAIN MapBefore(Runs))
               /\ f \in DOMAIN MapBefore(Runs) => store.map[f] = MapBefore(Runs)[f]

\* mask ran on an already masked file that has a store entry, and kept the entry
C8_Witness ==
    /\ LastWas("mask")
    /\ \E f \in FileSet :
          /\ hist[Runs].files[f].exists
          /\ Occurrences(f, TextBefore(Runs, f)) > 0
          /\ NothingToCapture(f, TextBefore(Runs, f))
          /\ f \in DOMAIN MapBefore(Runs)
          /\ MapBefore(Runs)[f] # <<>>
          /\ store.map[f] = MapBefore(Runs)[f]

(***************************************************************************)
(* C9 -- when a mask run captures at least one value in a file that has a  *)
(* store entry already, the entry after the run is exactly the sequence    *)
(* captured in this run (replaced wholesale, nothing of the earlier entry  *)
(* kept), and the entries of the other files are kept.                     *)
(***************************************************************************)
C9_EntryReplaced ==
    LastWas("mask") =>
        \A f \in FileSet :
            /\ hist[Runs].files[f].exists
            /\ f \in DOMAIN MapBefore(Runs)
            /\ ExpectedSecrets(f, TextBefore(Runs, f)) # <<>>
            => /\ store.map[f] = ExpectedSecrets(f, TextBefore(Runs, f))
               /\ Len(store.map[f]) = Len(ExpectedSecrets(f, TextBefore(Runs, f)))
               /\ \A g \in (DOMAIN MapBefore(Runs)) \ {f} :
                     /\ g \in DOMAIN store.map
                     /\ (~hist[Runs].files[g].exists \/ NothingToCapture(g, TextBefore(Runs, g)))
                            => store.map[g] = MapBefore(Runs)[g]

\* mask captured in a file whose earlier entry held other values, another file's entry kept
C9_Witness ==
    /\ LastWas("mask")
    /\ \E f \in FileSet :
          /\ f \in DOMAIN MapBefore(Runs)
          /\ MapBefore(Runs)[f] # <<>>
          /\ hist[Runs].files[f].exists
          /\ ExpectedSecrets(f, TextBefore(Runs, f)) # <<>>
          /\ store.map[f] # MapBefore(Runs)[f]
          /\ \E g \in (DOMAIN MapBefore(Runs)) \ {f} : store.map[g] = MapBefore(Runs)[g]

(***************************************************************************)
(* C10 -- unmask acts only on value zones equal to the mask token: a       *)
(* matched zone holding another value is never altered and consumes no     *)
(* stored value, so unmask leaves the text of a file with no mask-token    *)
(* occurrence unchanged whatever the store holds.                          *)
(***************************************************************************)
C10_UnmaskOnlyMasked ==
    LastWas("unmask") =>
        \A f \in FileSet :
            hist[Runs].files[f].exists /\ NoMaskedZone(f, TextBefore(Runs, f))
            => /\ ReadText(files[f].content) = TextBefore(Runs, f)
               /\ \A i \in 1..Len(output) :
                     output[i].file = f /\ output[i].kind = "Unmasked" => output[i].n = 0

(***************************************************************************)
(* C11 -- no value equal to the mask token is ever captured: in every      *)
(* state reached by mask and unmask runs from an empty store, no sequence  *)
(* of the store holds the mask token as an entry.                          *)
(***************************************************************************)
StartsEmpty == FirstStore.state # "ok" \/ DOMAIN FirstStore.map = {}

C11_NoMaskCaptured ==
    StartsEmpty =>
        \A f \in DOMAIN store.map : \A i \in 1..Len(store.map[f]) : store.map[f][i] # MASK

\* from an empty store, mask captured in a file that also held a masked zone,
\* and a later run went over the result
C11_Witness ==
    /\ StartsEmpty
    /\ Runs >= 2
    /\ hist[1].op = "mask"
    /\ \E f \in FileSet :
          /\ hist[1].files[f].exists
          /\ Occurrences(f, TextBefore(1, f)) > 0
          /\ f \in DOMAIN store.map
          /\ store.map[f] # <<>>

(***************************************************************************)
(* C12 -- mask and unmask substitute only the value zone of a match: the   *)
(* prefix and suffix of every match and the text outside the matched value *)
(* zones are the same after a run as before, so the number and the order   *)
(* of the pattern occurrences of a file are kept by both commands.         *)
(***************************************************************************)
RECURSIVE MatchSpans(_, _, _, _)
\* the matches of the k-th pattern of f in s from position i on: where each starts, its zone
MatchSpans(f, k, s, i) ==
    IF i > Len(s) THEN {}
    ELSE LET m == Match(FILES_CONFIG[f][k], s, i) IN
         IF m.found THEN {[k |-> k, at |-> i, vs |-> m.vs, ve |-> m.ve]}
                         \cup MatchSpans(f, k, s, m.end)
         ELSE MatchSpans(f, k, s, i + 1)

AllSpans(f, s) == UNION {MatchSpans(f, k, s, 1) : k \in 1..Len(FILES_CONFIG[f])}

RECURSIVE OccurrenceOrderFrom(_, _, _)
OccurrenceOrderFrom(f, s, i) ==
    IF i > Len(s) THEN <<>>
    ELSE LET here == {sp \in AllSpans(f, s) : sp.at = i}
         IN  (IF here = {} THEN <<>> ELSE <<(CHOOSE sp \in here : TRUE).k>>)
             \o OccurrenceOrderFrom(f, s, i + 1)

\* the patterns of the occurrences of s, in the order the occurrences stand in s
OccurrenceOrder(f, s) == OccurrenceOrderFrom(f, s, 1)

RECURSIVE OutsideZonesFrom(_, _, _)
OutsideZonesFrom(f, s, i) ==
    IF i > Len(s) THEN <<>>
    ELSE (IF \E sp \in AllSpans(f, s) : sp.vs <= i /\ i < sp.ve THEN <<>> ELSE <<s[i]>>)
         \o OutsideZonesFrom(f, s, i + 1)

\* s without the characters of its matched value zones
OutsideZones(f, s) == OutsideZonesFrom(f, s, 1)

C12_OnlyValueZone ==
    Runs >= 1 =>
        \A f \in FileSet :
            hist[Runs].files[f].exists
            => /\ OutsideZones(f, ReadText(files[f].content))
                    = OutsideZones(f, TextBefore(Runs, f))
               /\ OccurrenceOrder(f, ReadText(files[f].content))
                    = OccurrenceOrder(f, TextBefore(Runs, f))

(***************************************************************************)
(* C13 -- unmask with a non-empty store skips a target file that is        *)
(* missing on disk or has no entry in the store: the file is left as it    *)
(* was (not changed, not written, not created, not reported), while every  *)
(* other configured file that exists and has an entry is still restored.   *)
(***************************************************************************)
SkippedBefore(i, f) == ~hist[i].files[f].exists \/ f \notin DOMAIN MapBefore(i)

UnmaskedReport(f) == {k \in 1..Len(output) : output[k].kind = "Unmasked" /\ output[k].file = f}

C13_SkipOneRestoreOther ==
    (LastWas("unmask") /\ DOMAIN MapBefore(Runs) # {}) =>
        \A f \in FileSet :
            IF SkippedBefore(Runs, f)
            THEN /\ files[f] = hist[Runs].files[f]
                 /\ UnmaskedReport(f) = {}
            ELSE /\ UnmaskedReport(f) # {}
                 /\ files[f].exists
                 /\ files[f].content = WriteText(ReadText(files[f].content))
                 /\ (/\ Occurrences(f, TextBefore(Runs, f)) > 0
                     /\ MapBefore(Runs)[f] # <<>>
                     /\ \A i \in 1..Len(MapBefore(Runs)[f]) : MapBefore(Runs)[f][i] # MASK)
                    => /\ \A k \in UnmaskedReport(f) : output[k].n >= 1
                       /\ ReadText(files[f].content) # TextBefore(Runs, f)

\* unmask skipped the first configured file and restored a value in a later one
C13_Witness ==
    /\ LastWas("unmask")
    /\ SkippedBefore(Runs, FILES[1])
    /\ hist[Runs].files[FILES[1]].exists
    /\ \E f \in FileSet :
          /\ ~SkippedBefore(Runs, f)
          /\ Occurrences(f, TextBefore(Runs, f)) > 0
          /\ MapBefore(Runs)[f] # <<>>
          /\ ReadText(files[f].content) # TextBefore(Runs, f)

(***************************************************************************)
(* C14 -- from an absent store and a file whose original content O has at  *)
(* least one matched secret and no value zone equal to the mask token,     *)
(* after any sequence of mask and unmask runs the file's content is O or   *)
(* its fully masked form M, the store's entry for the file is absent or    *)
(* exactly the sequence S captured from O, and content M implies entry S.  *)
(* Contents are compared as the program reads them.                        *)
(***************************************************************************)
\* the files the first run started from
FirstFiles == IF hist = <<>> THEN files ELSE hist[1].files

\* O as the program reads it
OriginalText(f) == ReadText(FirstFiles[f].content)

\* M: O with the value zones of its occurrences holding the mask token
MaskedText(f) == MaskFile(f, OriginalText(f)).content

HasPlainSecrets(f) ==
    /\ FirstFiles[f].exists
    /\ Zones(f, OriginalText(f)) # {}
    /\ NoMaskedZone(f, OriginalText(f))

C14_TwoStates ==
    FirstStore.state = "absent" =>
        \A f \in FileSet :
            HasPlainSecrets(f)
            => /\ ReadText(files[f].content) \in {OriginalText(f), MaskedText(f)}
               /\ f \in DOMAIN load_secrets
                  => load_secrets[f] = ExpectedSecrets(f, OriginalText(f))
               /\ ReadText(files[f].content) = MaskedText(f)
                  => /\ f \in DOMAIN load_secrets
                     /\ load_secrets[f] = ExpectedSecrets(f, OriginalText(f))

(***************************************************************************)
(* C15 -- after a mask run, in every configured target file that exists,   *)
(* every value zone matched by any pattern of the file equals the mask     *)
(* token; this includes the zones of the earlier patterns, searched for    *)
(* again in the text as the later patterns left it.                        *)
(***************************************************************************)
C15_AllZonesMasked ==
    LastWas("mask") =>
        \A f \in FileSet :
            files[f].exists
            => \A k \in 1..Len(FILES_CONFIG[f]) :
                  \A j \in 1..Len(ZoneValues(FILES_CONFIG[f][k], ReadText(files[f].content))) :
                      ZoneValues(FILES_CONFIG[f][k], ReadText(files[f].content))[j] = MASK

\* a match of an earlier pattern stood inside the value zone of a later pattern
Nested(f, s) ==
    \E sp1 \in AllSpans(f, s), sp2 \in AllSpans(f, s) :
        sp1.k < sp2.k /\ sp2.vs <= sp1.at /\ sp1.at < sp2.ve

\* mask captured under two patterns of one file, in one case from nested matches
C15_Witness ==
    /\ LastWas("mask")
    /\ \E f \in FileSet :
          /\ hist[Runs].files[f].exists
          /\ Nested(f, TextBefore(Runs, f))
          /\ f \in DOMAIN store.map
          /\ Len(store.map[f]) >= 2
          /\ Zones(f, ReadText(files[f].content)) = {MASK}

(***************************************************************************)
(* C16 -- per-file independence: in a mask or unmask run, what becomes of  *)
(* a configured file and of its store entry is settled by that file and    *)
(* that entry alone, whatever the run does with the other file; a mask run *)
(* in which a target file is missing keeps that file's entry in the saved  *)
(* store as it was.                                                        *)
(***************************************************************************)
\* the entry of f in mapping m, <<"none">> when f has none
Entry(m, f) == IF f \in DOMAIN m THEN <<"entry", m[f]>> ELSE <<"none">>

\* file f and its entry after a mask run on file f alone
MaskAlone(i, f) ==
    IF hist[i].files[f].exists /\ ExpectedSecrets(f, TextBefore(i, f)) # <<>>
    THEN [file  |-> OnDisk(WriteText(MaskFile(f, TextBefore(i, f)).content)),
          entry |-> <<"entry", ExpectedSecrets(f, TextBefore(i, f))>>]
    ELSE [file |-> hist[i].files[f], entry |-> Entry(MapBefore(i), f)]

\* file f and its entry after an unmask run on file f alone
UnmaskAlone(i, f) ==
    IF hist[i].files[f].exists /\ f \in DOMAIN MapBefore(i)
    THEN [file  |-> OnDisk(WriteText(UnmaskFile(f, TextBefore(i, f), MapBefore(i)[f]).content)),
          entry |-> Entry(MapBefore(i), f)]
    ELSE [file |-> hist[i].files[f], entry |-> Entry(MapBefore(i), f)]

\* the other file was rewritten by the last run
OtherProcessed(f) == \E g \in FileSet \ {f} : files[g] # hist[Runs].files[g]

C16_PerFile ==
    Runs >= 1 =>
        \A f \in FileSet :
            LET alone == IF hist[Runs].op = "mask" THEN MaskAlone(Runs, f)
                         ELSE UnmaskAlone(Runs, f)
            IN  /\ files[f] = alone.file
                /\ Entry(load_secrets, f) = alone.entry
                /\ (hist[Runs].op = "mask" /\ ~hist[Runs].files[f].exists)
                   => /\ ~files[f].exists
                      /\ Entry(load_secrets, f) = Entry(MapBefore(Runs), f)

\* mask rewrote one file and saved the store while the other file was missing
\* and had an entry, which the saved store still holds
C16_Witness ==
    /\ LastWas("mask")
    /\ \E f \in FileSet :
          /\ ~hist[Runs].files[f].exists
          /\ f \in DOMAIN MapBefore(Runs)
          /\ OtherProcessed(f)
          /\ store.state = "ok"
          /\ f \in DOMAIN store.map
          /\ store.map[f] = MapBefore(Runs)[f]

====
